---- MODULE Spec2Model ----
(***************************************************************************)
(* Buin Zoo dashboard front end: the HTTP helpers of App.jsx and of        *)
(* AuthContext.jsx, the auth session store (AuthProvider, LoginPage,       *)
(* ProtectedApp) and the data hooks of App.jsx with the acknowledge        *)
(* handlers of the App component.                                          *)
(*                                                                         *)
(* The browser is single threaded: every action below is one run of        *)
(* JavaScript between two awaits (an event handler, an effect, or the      *)
(* continuation of a promise).  Each subsystem has its own specification:  *)
(*   SpecHttp      one call of getJSON/postJSON, response by response      *)
(*   SpecAuth      AuthProvider + LoginPage + ProtectedApp                 *)
(*   SpecTimeline  useBehaviorTimeline                                     *)
(*   SpecTimelineFair  the same, with every request settling in the end    *)
(*   SpecAlerts    useAlerts + ackAlert + markAllRead + toggleScope        *)
(*   SpecHistory   useDeviationHistory                                     *)
(*   SpecTray      NotificationTray + trayOpen                             *)
(*   SpecChart     chartOffset + useBehaviorDayDistribution + chartPercents*)
(*   SpecSelection useAnimals + selectedId (auto-select, clicks, arrow keys)*)
(*   SpecPolling   the intervals of the polling hooks over mount and unmount*)
(***************************************************************************)
EXTENDS Integers, Sequences, FiniteSets, TLC

VARIABLES
    call,          \* SpecHttp: the getJSON/postJSON call being followed
    user,          \* AuthProvider: useState(null)
    checking,      \* AuthProvider: useState(true)
    startPc,       \* AuthProvider mount effect: where it is suspended
    startLog,      \* requests the mount effect has issued, with their outcome
    loginPc,       \* AuthProvider.login: the await it is suspended at
    loginLog,      \* requests the running/last login() has issued, with outcome
    loading,       \* LoginPage: useState(false)
    error,         \* LoginPage: useState("")
    escaped,       \* a rejection left handleSubmit or logout unhandled
    logouts,       \* number of logout() calls awaiting POST /auth/logout
    logoutRes,     \* how the last settled POST /auth/logout ended
    tlAnimalId,    \* useBehaviorTimeline: the animalId it is called with
    tlRows,        \* useBehaviorTimeline: useState([])
    tlEffects,     \* useBehaviorTimeline: the effect runs so far, each with
                   \*   the animalId it closed over and its `cancel` flag
    tlPending,     \* effect runs whose getJSON has not settled yet
    tlLast,        \* the last settled timeline fetch and what it did
    dhAnimalId,    \* useDeviationHistory: the animalId it is called with
    dhHistory,     \* useDeviationHistory: useState([])
    dhTimers,      \* animalIds of the effect runs whose interval is active
    dhPending,     \* loadAll() calls awaiting Promise.all, per animalId
    dhLast,        \* the loadAll() that committed dhHistory: its animalId and
                   \*   the dates whose fetch brought no percentages
    selectedId,    \* App: useState(null)
    alertScope,    \* App: useState("selected")
    notifications, \* useAlerts: useState([])
    alTimers,      \* keys of the useAlerts effect runs whose interval is active
    alLoads,       \* load() calls of useAlerts awaiting getJSON
    acks,          \* ackAlert / markAllRead calls awaiting postJSON
    alLast,        \* the load() that settled in the last step, if one did
    srvOpen,       \* backend: ids of the alerts whose estado is "open"
    trayOpen,      \* App: useState(false), the `open` prop of NotificationTray
    trayEv,        \* the DOM event (bell, document) handled in the last step
    ddAnimalId,    \* useBehaviorDayDistribution: the animalId it is called with
    chartOffset,   \* App: useState(0), days before today shown in the bar chart
    dist,          \* useBehaviorDayDistribution: useState(null)
    ddTimer,       \* the current effect run has an active interval
    ddPending,     \* load() calls of the hook awaiting getJSON, each with
                   \*   the animalId, date and `stop` flag of its effect run
    animals,       \* useAnimals: useState([]), the animal_id of each entry
    rosterPc,      \* useAnimals: how its one getJSON("/api/animals") stands
    selEv,         \* the event (roster, click, key) handled in the last step
    mounted,       \* App is mounted (ProtectedApp renders the dashboard)
    timers,        \* SpecPolling: the intervals that are active, each with
                   \*   the hook and the scope of the effect run that set it
    pollLast       \* the load an interval started in the last step, if any

httpVars == <<call>>
tlVars == <<tlAnimalId, tlRows, tlEffects, tlPending, tlLast>>
dhVars == <<dhAnimalId, dhHistory, dhTimers, dhPending, dhLast>>
alVars == <<selectedId, alertScope, notifications, alTimers, alLoads, acks,
            alLast, srvOpen>>
trVars == <<trayOpen, trayEv>>
ddVars == <<ddAnimalId, chartOffset, dist, ddTimer, ddPending>>
selVars == <<animals, rosterPc, selEv>>
plVars == <<mounted, timers, pollLast>>
authVars == <<user, checking, startPc, startLog, loginPc, loginLog, loading,
              error, escaped, logouts, logoutRes>>

----------------------------------------------------------------------------
(* Bounds *)

\* logout() calls that may be awaiting their response at once
MaxLogouts == 2

\* runs of the effect of useBehaviorTimeline (changes of the selected animal)
MaxTlEffects == 4

\* loadAll() calls of useDeviationHistory in flight at once
MaxDhLoads == 2

\* dates of one 7-day window whose fetch brings no percentages
MaxBadDays == 3

\* requests of the alerts code (load() calls and acknowledges) in flight at once
MaxInFlight == 2

\* load() calls of useBehaviorDayDistribution in flight at once
MaxDdLoads == 2

----------------------------------------------------------------------------
(* Values *)

NULL == "null"

\* What `animals[i]?.animal_id` gives when there is no animals[i].
UNDEFINED == "undefined"

\* The values x with !x among those selectedId takes.
Unset == {NULL, UNDEFINED}

\* Outcome of one fetch(): a Response with an HTTP status, or a rejection
\* (network-level failure).
Statuses == {200, 401, 500}
Rejected == [rejected |-> TRUE, status |-> 0]
Responses == {[rejected |-> FALSE, status |-> s] : s \in Statuses} \cup {Rejected}

\* Response.ok
ResOk(r) == r.status >= 200 /\ r.status <= 299

\* What `if (!res.ok) throw new Error(await res.text()); return res.json()`
\* makes of a settled fetch.
Settle(r) == IF ~r.rejected /\ ResOk(r) THEN "ok" ELSE "throw"

Paths == {"/api/animals", "/api/alerts", "/api/alerts/ack/bulk"}
Methods == {"GET", "POST"}
Wrappers == {"App", "AuthContext"}

Req(method, path) == [method |-> method, path |-> path]
RefreshReq == Req("POST", "/auth/refresh")

----------------------------------------------------------------------------
(* SpecHttp: one call of getJSON / postJSON.                               *)
(* call.log is the sequence of requests issued by the call, call.resps the *)
(* outcomes received so far, call.result "pending", "ok" (res.json()) or   *)
(* "throw".                                                                *)

IdleCall ==
    [wrapper |-> "App", method |-> "GET", path |-> "/api/animals",
     pc |-> "idle", log |-> <<>>, resps |-> <<>>, result |-> "pending"]

\* getJSON(path, params) / postJSON(path, body): the first fetch is issued.
CallStart(w, m, p) ==
    /\ call.pc \in {"idle", "done"}
    /\ call' = [wrapper |-> w, method |-> m, path |-> p, pc |-> "first",
                log |-> <<Req(m, p)>>, resps |-> <<>>, result |-> "pending"]

\* A first response handler that refreshes and retries after any failure.
AppFirstResponse_RetryAll(r) ==
    /\ call.wrapper = "App" /\ call.pc = "first"
    /\ IF ~r.rejected /\ ResOk(r)
       THEN call' = [call EXCEPT !.pc = "done", !.resps = Append(@, r),
                                 !.result = "ok"]
       ELSE call' = [call EXCEPT !.pc = "refresh", !.resps = Append(@, r),
                                 !.log = Append(@, RefreshReq)]

\* App.jsx: `let res = await fetch(...)` settles with r.
\*   fetch rejects            -> the call rejects
\*   res.status === 401       -> POST /auth/refresh is issued
\*   otherwise                -> !res.ok throws, else res.json()
AppFirstResponse(r) ==
    /\ call.wrapper = "App" /\ call.pc = "first"
    /\ IF r.rejected
       THEN call' = [call EXCEPT !.pc = "done", !.resps = Append(@, r),
                                 !.result = "throw"]
       ELSE IF r.status = 401
       THEN call' = [call EXCEPT !.pc = "refresh", !.resps = Append(@, r),
                                 !.log = Append(@, RefreshReq)]
       ELSE call' = [call EXCEPT !.pc = "done", !.resps = Append(@, r),
                                 !.result = Settle(r)]

\* A refresh without `.catch(() => {})` and with a test of its status: a
\* failed refresh ends the call.
AppRefreshSettled_Strict(r) ==
    /\ call.wrapper = "App" /\ call.pc = "refresh"
    /\ IF Settle(r) = "ok"
       THEN call' = [call EXCEPT !.pc = "retry", !.resps = Append(@, r),
                                 !.log = Append(@, Req(call.method, call.path))]
       ELSE call' = [call EXCEPT !.pc = "done", !.resps = Append(@, r),
                                 !.result = "throw"]

\* App.jsx: `await fetch(API_BASE + "/auth/refresh", ...).catch(() => {})`
\* settles with r (any status, or a rejection that is swallowed); the
\* original request is issued again.
AppRefreshSettled(r) ==
    /\ call.wrapper = "App" /\ call.pc = "refresh"
    /\ call' = [call EXCEPT !.pc = "retry", !.resps = Append(@, r),
                            !.log = Append(@, Req(call.method, call.path))]

\* A retry that starts another refresh round on a second 401.
AppRetryResponse_Loop(r) ==
    /\ call.wrapper = "App" /\ call.pc = "retry"
    /\ IF ~r.rejected /\ r.status = 401 /\ Len(call.log) < 7
       THEN call' = [call EXCEPT !.pc = "refresh", !.resps = Append(@, r),
                                 !.log = Append(@, RefreshReq)]
       ELSE call' = [call EXCEPT !.pc = "done", !.resps = Append(@, r),
                                !.result = Settle(r)]

\* App.jsx: `res = await fetch(...)` of the retry settles with r; then
\* `if (!res.ok) throw ...; return res.json()`.
AppRetryResponse(r) ==
    /\ call.wrapper = "App" /\ call.pc = "retry"
    /\ call' = [call EXCEPT !.pc = "done", !.resps = Append(@, r),
                            !.result = Settle(r)]

\* AuthContext.jsx getJSON/postJSON: `const res = await fetch(...)`;
\* `if (!res.ok) throw ...; return res.json()`.  No 401 handling.
AuthCtxResponse(r) ==
    /\ call.wrapper = "AuthContext" /\ call.pc = "first"
    /\ call' = [call EXCEPT !.pc = "done", !.resps = Append(@, r),
                            !.result = Settle(r)]

HttpInit == call = IdleCall

HttpNext ==
    \/ \E w \in Wrappers, m \in Methods, p \in Paths :
           CallStart(w, m, p) /\ UNCHANGED <<authVars, tlVars, dhVars, alVars, trVars, ddVars, selVars, plVars>>
    \/ \E r \in Responses : AppFirstResponse(r) /\ UNCHANGED <<authVars, tlVars, dhVars, alVars, trVars, ddVars, selVars, plVars>>
    \/ \E r \in Responses : AppRefreshSettled(r) /\ UNCHANGED <<authVars, tlVars, dhVars, alVars, trVars, ddVars, selVars, plVars>>
    \/ \E r \in Responses : AppRetryResponse(r) /\ UNCHANGED <<authVars, tlVars, dhVars, alVars, trVars, ddVars, selVars, plVars>>
    \/ \E r \in Responses : AuthCtxResponse(r) /\ UNCHANGED <<authVars, tlVars, dhVars, alVars, trVars, ddVars, selVars, plVars>>

----------------------------------------------------------------------------
(* SpecAuth: AuthContext.jsx (AuthProvider), LoginPage.jsx, main.jsx       *)
(* (ProtectedApp).  The helpers of AuthContext.jsx make one attempt per    *)
(* call, so each await of the provider settles in one step with one        *)
(* Response.  A log entry is [req, body, res]: res is "pending" while the  *)
(* request is in flight, then "fail", or the decoded JSON ("ok" for a      *)
(* POST, the identity for GET /auth/me).                                   *)

Users == {"u1", "u2"}
Creds == {"good", "bad"}
ErrorMsg == "Usuario o contrasena incorrectos"

Entry(req, body) == [req |-> req, body |-> body, res |-> "pending"]

\* The last entry of a log with its outcome filled in.
Answered(log, res) == [log EXCEPT ![Len(log)].res = res]

Last(log) == log[Len(log)]

\* main.jsx ProtectedApp with the two checks in the other order.
ProtectedApp_UserFirst(u, c) ==
    IF u # NULL THEN "dashboard" ELSE IF c THEN "loading" ELSE "login"

\* main.jsx ProtectedApp: what the root renders for (user, checking).
ProtectedApp(u, c) ==
    IF c THEN "loading" ELSE IF u = NULL THEN "login" ELSE "dashboard"

View == ProtectedApp(user, checking)

AuthInit ==
    /\ user = NULL
    /\ checking = TRUE
    /\ startPc = "me1"
    /\ startLog = <<Entry("GET /auth/me", "none")>>
    /\ loginPc = "idle"
    /\ loginLog = <<>>
    /\ loading = FALSE
    /\ error = ""
    /\ escaped = FALSE
    /\ logouts = 0
    /\ logoutRes = "none"

\* A mount effect that gives up after the first failure.
StartMe1_NoRefresh(r, me) ==
    /\ startPc = "me1"
    /\ IF Settle(r) = "ok"
       THEN /\ user' = me
            /\ startLog' = Answered(startLog, me)
            /\ startPc' = "finally"
       ELSE /\ user' = NULL
            /\ startLog' = Answered(startLog, "fail")
            /\ startPc' = "finally"
    /\ UNCHANGED <<checking, loginPc, loginLog, loading, error, escaped, logouts,
                   logoutRes>>

\* Mount effect, first `await getJSON("/auth/me")` settles.
\*   ok   -> setUser(me), then the finally block
\*   fail -> catch: postJSON("/auth/refresh") is issued
StartMe1(r, me) ==
    /\ startPc = "me1"
    /\ IF Settle(r) = "ok"
       THEN /\ user' = me
            /\ startLog' = Answered(startLog, me)
            /\ startPc' = "finally"
       ELSE /\ user' = user
            /\ startLog' = Append(Answered(startLog, "fail"),
                                  Entry("POST /auth/refresh", "none"))
            /\ startPc' = "refresh"
    /\ UNCHANGED <<checking, loginPc, loginLog, loading, error, escaped, logouts,
                   logoutRes>>

\* Mount effect, `await postJSON("/auth/refresh")` settles.
\*   ok   -> getJSON("/auth/me") is issued again
\*   fail -> inner catch: setUser(null), then the finally block
StartRefresh(r) ==
    /\ startPc = "refresh"
    /\ IF Settle(r) = "ok"
       THEN /\ user' = user
            /\ startLog' = Append(Answered(startLog, "ok"),
                                  Entry("GET /auth/me", "none"))
            /\ startPc' = "me2"
       ELSE /\ user' = NULL
            /\ startLog' = Answered(startLog, "fail")
            /\ startPc' = "finally"
    /\ UNCHANGED <<checking, loginPc, loginLog, loading, error, escaped, logouts,
                   logoutRes>>

\* Mount effect, the second `await getJSON("/auth/me")` settles.
StartMe2(r, me) ==
    /\ startPc = "me2"
    /\ IF Settle(r) = "ok"
       THEN /\ user' = me
            /\ startLog' = Answered(startLog, me)
       ELSE /\ user' = NULL
            /\ startLog' = Answered(startLog, "fail")
    /\ startPc' = "finally"
    /\ UNCHANGED <<checking, loginPc, loginLog, loading, error, escaped, logouts,
                   logoutRes>>

\* Mount effect, `finally { setChecking(false); }`.
StartFinally ==
    /\ startPc = "finally"
    /\ checking' = FALSE
    /\ startPc' = "done"
    /\ UNCHANGED <<user, startLog, loginPc, loginLog, loading, error, escaped,
                   logouts, logoutRes>>

\* LoginPage.handleSubmit up to `await login(username, password)`:
\* setLoading(true); setError(""); login() issues POST /auth/login.
\* The form exists only while ProtectedApp renders LoginPage, and its
\* submit button is disabled while loading.
Submit(cred) ==
    /\ View = "login"
    /\ ~loading
    /\ loading' = TRUE
    /\ error' = ""
    /\ loginPc' = "post"
    /\ loginLog' = <<Entry("POST /auth/login", cred)>>
    /\ UNCHANGED <<user, checking, startPc, startLog, escaped, logouts, logoutRes>>

\* handleSubmit without its catch block.
LoginFailed_NoCatch ==
    /\ escaped' = TRUE
    /\ error' = error
    /\ loading' = FALSE
    /\ loginPc' = "idle"

\* login() rejected: handleSubmit's `catch (err) { setError(...) }` and
\* `finally { setLoading(false) }`.
LoginFailed ==
    /\ escaped' = escaped
    /\ error' = ErrorMsg
    /\ loading' = FALSE
    /\ loginPc' = "idle"

\* login(): `await postJSON("/auth/login", {username, password})` settles.
LoginPostResponse(r) ==
    /\ loginPc = "post"
    /\ IF Settle(r) = "ok"
       THEN /\ loginLog' = Append(Answered(loginLog, "ok"),
                                  Entry("GET /auth/me", "none"))
            /\ loginPc' = "me"
            /\ UNCHANGED <<loading, error, escaped>>
       ELSE /\ loginLog' = Answered(loginLog, "fail")
            /\ LoginFailed
    /\ UNCHANGED <<user, checking, startPc, startLog, logouts, logoutRes>>

\* login() that fetches the identity and forgets setUser(me).
LoginMeResponse_NoSetUser(r, me) ==
    /\ loginPc = "me"
    /\ IF Settle(r) = "ok"
       THEN /\ loginLog' = Answered(loginLog, me)
            /\ user' = user
            /\ loading' = FALSE
            /\ loginPc' = "idle"
            /\ UNCHANGED <<error, escaped>>
       ELSE /\ loginLog' = Answered(loginLog, "fail")
            /\ user' = user
            /\ LoginFailed
    /\ UNCHANGED <<checking, startPc, startLog, logouts, logoutRes>>

\* login(): `const me = await getJSON("/auth/me")` settles.
\*   ok   -> setUser(me); handleSubmit's finally: setLoading(false)
\*   fail -> login() rejects into handleSubmit's catch
LoginMeResponse(r, me) ==
    /\ loginPc = "me"
    /\ IF Settle(r) = "ok"
       THEN /\ loginLog' = Answered(loginLog, me)
            /\ user' = me
            /\ loading' = FALSE
            /\ loginPc' = "idle"
            /\ UNCHANGED <<error, escaped>>
       ELSE /\ loginLog' = Answered(loginLog, "fail")
            /\ user' = user
            /\ LoginFailed
    /\ UNCHANGED <<checking, startPc, startLog, logouts, logoutRes>>

\* App's logout button (rendered with the dashboard): logout() issues
\* POST /auth/logout.
Logout ==
    /\ View = "dashboard"
    /\ logouts < MaxLogouts
    /\ logouts' = logouts + 1
    /\ UNCHANGED <<user, checking, startPc, startLog, loginPc, loginLog,
                   loading, error, escaped, logoutRes>>

\* logout() that clears the user only when the request succeeded.
LogoutResponse_OnlyOnSuccess(r) ==
    /\ logouts > 0
    /\ logouts' = logouts - 1
    /\ user' = IF Settle(r) = "ok" THEN NULL ELSE user
    /\ logoutRes' = Settle(r)
    /\ UNCHANGED <<checking, startPc, startLog, loginPc, loginLog, loading,
                   error, escaped>>

\* logout(): `try { await postJSON("/auth/logout"); } catch {}` settles
\* either way, then setUser(null).
LogoutResponse(r) ==
    /\ logouts > 0
    /\ logouts' = logouts - 1
    /\ user' = NULL
    /\ logoutRes' = Settle(r)
    /\ UNCHANGED <<checking, startPc, startLog, loginPc, loginLog, loading,
                   error, escaped>>

AuthNext ==
    \/ \E r \in Responses, me \in Users : StartMe1(r, me) /\ UNCHANGED <<httpVars, tlVars, dhVars, alVars, trVars, ddVars, selVars, plVars>>
    \/ \E r \in Responses : StartRefresh(r) /\ UNCHANGED <<httpVars, tlVars, dhVars, alVars, trVars, ddVars, selVars, plVars>>
    \/ \E r \in Responses, me \in Users : StartMe2(r, me) /\ UNCHANGED <<httpVars, tlVars, dhVars, alVars, trVars, ddVars, selVars, plVars>>
    \/ StartFinally /\ UNCHANGED <<httpVars, tlVars, dhVars, alVars, trVars, ddVars, selVars, plVars>>
    \/ \E cred \in Creds : Submit(cred) /\ UNCHANGED <<httpVars, tlVars, dhVars, alVars, trVars, ddVars, selVars, plVars>>
    \/ \E r \in Responses : LoginPostResponse(r) /\ UNCHANGED <<httpVars, tlVars, dhVars, alVars, trVars, ddVars, selVars, plVars>>
    \/ \E r \in Responses, me \in Users :
           LoginMeResponse(r, me) /\ UNCHANGED <<httpVars, tlVars, dhVars, alVars, trVars, ddVars, selVars, plVars>>
    \/ Logout /\ UNCHANGED <<httpVars, tlVars, dhVars, alVars, trVars, ddVars, selVars, plVars>>
    \/ \E r \in Responses : LogoutResponse(r) /\ UNCHANGED <<httpVars, tlVars, dhVars, alVars, trVars, ddVars, selVars, plVars>>

----------------------------------------------------------------------------
(* SpecTimeline: useBehaviorTimeline(animalId, dateISO) of App.jsx.  App   *)
(* calls it with (selectedId, todayISO), so only animalId changes.  The    *)
(* backend's answer for an animal is one of SrvTimelines(animal), an empty *)
(* array, or JSON that is not an array.                                    *)

AnimalIds == {"a1", "a2"}

Sample(h, b) == [hour |-> h, behavior |-> b]

\* Hourly rows the backend may hold for an animal (told apart by animal).
SrvTimelines(a) ==
    IF a = "a1"
    THEN {<<Sample(0, "Resting")>>, <<Sample(0, "Resting"), Sample(1, "Foraging")>>}
    ELSE {<<Sample(0, "Play")>>}

\* Decoded bodies of GET /api/behavior/timeline for animal a.
TimelineBodies(a) ==
    {[isArray |-> TRUE, rows |-> t] : t \in SrvTimelines(a) \cup {<<>>}}
        \cup {[isArray |-> FALSE, rows |-> <<>>]}

\* Array.isArray(r) ? r : []
RowsOf(body) == IF body.isArray THEN body.rows ELSE <<>>

\* App mounts with selectedId = null: the effect runs once, calls
\* setRows([]) and returns without a fetch.
TimelineInit ==
    /\ tlAnimalId = NULL
    /\ tlRows = <<>>
    /\ tlEffects = <<[animalId |-> NULL, cancel |-> FALSE]>>
    /\ tlPending = {}
    /\ tlLast = [eff |-> 0, ok |-> FALSE, committed |-> FALSE]

\* animalId changes to b: the cleanup of the previous run sets its cancel
\* flag (a run with no animal returned before registering a cleanup); the
\* effect runs again: no animal -> setRows([]); else getJSON is issued.
TimelineRerun(b) ==
    /\ b # tlAnimalId
    /\ Len(tlEffects) < MaxTlEffects
    /\ tlAnimalId' = b
    /\ LET cur == Len(tlEffects)
           cleaned == IF tlEffects[cur].animalId \notin Unset
                      THEN [tlEffects EXCEPT ![cur].cancel = TRUE]
                      ELSE tlEffects
       IN tlEffects' = Append(cleaned, [animalId |-> b, cancel |-> FALSE])
    /\ IF b \in Unset
       THEN tlRows' = <<>> /\ tlPending' = tlPending
       ELSE tlRows' = tlRows /\ tlPending' = tlPending \cup {Len(tlEffects) + 1}
    /\ UNCHANGED tlLast

\* The .then/.catch callbacks without the `if (!cancel)` guard.
TimelineResponse_NoGuard(e, ok, body) ==
    /\ e \in tlPending
    /\ tlPending' = tlPending \ {e}
    /\ tlRows' = IF ok THEN RowsOf(body) ELSE <<>>
    /\ tlLast' = [eff |-> e, ok |-> ok, committed |-> TRUE]
    /\ UNCHANGED <<tlAnimalId, tlEffects>>

\* getJSON of effect run e settles:
\*   .then((r) => { if (!cancel) setRows(Array.isArray(r) ? r : []); })
\*   .catch(() => { if (!cancel) setRows([]); })
TimelineResponse(e, ok, body) ==
    /\ e \in tlPending
    /\ tlPending' = tlPending \ {e}
    /\ tlRows' = IF tlEffects[e].cancel THEN tlRows
                 ELSE IF ok THEN RowsOf(body) ELSE <<>>
    /\ tlLast' = [eff |-> e, ok |-> ok, committed |-> ~tlEffects[e].cancel]
    /\ UNCHANGED <<tlAnimalId, tlEffects>>

\* App's selectedId leaves null when the roster has loaded and then moves
\* among the animals of the roster.
TimelineNext ==
    \/ \E b \in AnimalIds :
           TimelineRerun(b) /\ UNCHANGED <<httpVars, authVars, dhVars, alVars, trVars, ddVars, selVars, plVars>>
    \/ \E e \in tlPending, ok \in BOOLEAN :
           \E body \in TimelineBodies(tlEffects[e].animalId) :
               TimelineResponse(e, ok, body) /\ UNCHANGED <<httpVars, authVars, dhVars, alVars, trVars, ddVars, selVars, plVars>>

----------------------------------------------------------------------------
(* SpecHistory: useDeviationHistory(animalId, baselinePctMap) of App.jsx.  *)
(* App passes (selectedId, selected?.baseline_behavior_pct || {}), and the *)
(* roster is fetched once, so the baseline is a function of the animal.    *)
(* Percentage maps are functions on the categories the JSON object holds.  *)

BEHAVIORS == {"Foraging", "Resting", "Locomotion", "Social", "Play", "Stereotypy"}

\* Array.from({ length: 7 }, ...)
NumDays == 7
Days == 1..NumDays

\* dates[i]: d.setDate(d.getDate() - (6 - i)) with i from 0, so the i-th of
\* the seven dates lies NumDays - i days before today.
Dates == [i \in Days |-> NumDays - i]

EmptyMap == [b \in {} |-> 0]

\* baseline_behavior_pct of the roster entry of animal a
BaselineOf(a) ==
    IF a = "a1" THEN [b \in {"Resting", "Foraging"} |-> 50] ELSE EmptyMap

\* behavior_percentages the backend holds for animal a on date i
SrvPct(a, i) ==
    IF a = "a1"
    THEN [b \in {"Resting", "Foraging"} |-> IF b = "Resting" THEN 50 + i ELSE 50 - i]
    ELSE [b \in {"Play", "Resting"} |-> IF b = "Play" THEN 10 * i ELSE 100 - 10 * i]

\* One entry of `results`: null (the fetch failed and .catch gave null), a
\* body without behavior_percentages, or a body with them.
NullResult == [isNull |-> TRUE, hasPct |-> FALSE, pct |-> EmptyMap]
NoPctResult == [isNull |-> FALSE, hasPct |-> FALSE, pct |-> EmptyMap]
DataResult(a, i) == [isNull |-> FALSE, hasPct |-> TRUE, pct |-> SrvPct(a, i)]

\* The `results` arrays Promise.all may deliver to a loadAll() for animal a:
\* the dates in F (at most MaxBadDays of them) have no percentages, because
\* their fetches failed or because their bodies lack the field.
ResultVectors(a) ==
    {[i \in Days |-> IF i \in F THEN bad ELSE DataResult(a, i)] :
        F \in {G \in SUBSET Days : Cardinality(G) <= MaxBadDays},
        bad \in {NullResult, NoPctResult}}

\* obj[b] || 0
Get(map, b) == IF b \in DOMAIN map THEN map[b] ELSE 0

\* results[i]?.behavior_percentages || {}
DayData(res) == IF res.isNull \/ ~res.hasPct THEN EmptyMap ELSE res.pct

\* loadAll that leaves out the dates whose fetch failed.
Processed_SkipFailed(a, results) ==
    LET Good(i) == ~results[i].isNull
        good == SelectSeq([i \in Days |-> i], Good)
    IN [k \in 1..Len(good) |->
           [date |-> Dates[good[k]],
            values |-> [b \in BEHAVIORS |->
                           Get(DayData(results[good[k]]), b) - Get(BaselineOf(a), b)]]]

\* `processed` of loadAll: dates.map((d, i) => ({date, values: actual - base}))
Processed(a, results) ==
    [i \in Days |->
        [date |-> Dates[i],
         values |-> [b \in BEHAVIORS |->
                        Get(DayData(results[i]), b) - Get(BaselineOf(a), b)]]]

\* App mounts with selectedId = null: the effect returns at `if (!animalId)`.
HistoryInit ==
    /\ dhAnimalId = NULL
    /\ dhHistory = <<>>
    /\ dhTimers = {}
    /\ dhPending = [a \in AnimalIds |-> 0]
    /\ dhLast = [animalId |-> NULL, bad |-> {}]

DhInFlight == dhPending["a1"] + dhPending["a2"]

\* animalId (with its baseline) changes to b: the cleanup of the previous
\* run clears its interval; the effect runs again: no animal -> return;
\* else loadAll() is called and setInterval(loadAll, 15000) is started.
HistoryRerun(b) ==
    /\ b # dhAnimalId
    /\ dhAnimalId' = b
    /\ dhHistory' = dhHistory
    /\ dhLast' = dhLast
    /\ IF b = NULL
       THEN /\ dhTimers' = dhTimers \ {dhAnimalId}
            /\ dhPending' = dhPending
       ELSE /\ DhInFlight < MaxDhLoads
            /\ dhTimers' = (dhTimers \ {dhAnimalId}) \cup {b}
            /\ dhPending' = [dhPending EXCEPT ![b] = @ + 1]

\* The interval of the effect run for animal a fires: loadAll().
HistoryTick(a) ==
    /\ a \in dhTimers
    /\ DhInFlight < MaxDhLoads
    /\ dhPending' = [dhPending EXCEPT ![a] = @ + 1]
    /\ UNCHANGED <<dhAnimalId, dhHistory, dhTimers, dhLast>>

\* `await Promise.all(promises)` of a loadAll() for animal a resumes with
\* results: processed is computed and setHistory(processed) is called.
HistorySettled(a, results) ==
    /\ dhPending[a] > 0
    /\ dhPending' = [dhPending EXCEPT ![a] = @ - 1]
    /\ dhHistory' = Processed(a, results)
    /\ dhLast' = [animalId |-> a,
                  bad |-> {i \in Days : results[i].isNull \/ ~results[i].hasPct}]
    /\ UNCHANGED <<dhAnimalId, dhTimers>>

HistoryNext ==
    \/ \E b \in AnimalIds :
           HistoryRerun(b) /\ UNCHANGED <<httpVars, authVars, tlVars, alVars, trVars, ddVars, selVars, plVars>>
    \/ \E a \in AnimalIds :
           HistoryTick(a) /\ UNCHANGED <<httpVars, authVars, tlVars, alVars, trVars, ddVars, selVars, plVars>>
    \/ \E a \in AnimalIds : \E results \in ResultVectors(a) :
           HistorySettled(a, results) /\ UNCHANGED <<httpVars, authVars, tlVars, alVars, trVars, ddVars, selVars, plVars>>

----------------------------------------------------------------------------
(* SpecAlerts: useAlerts(animalIdOrNull) of App.jsx with the App code that *)
(* drives it: the selection, toggleScope, ackAlert and markAllRead.  The   *)
(* backend holds the alerts AlertIds, each owned by one animal; a load()   *)
(* is answered with the rows as they are at the moment the backend serves  *)
(* it, which is some time between the request and the response.            *)

AlertIds == {1, 2}
AlertOwner(id) == IF id = 1 THEN "a1" ELSE "a2"

\* String(r.alert_id)
Str(id) == ToString(id)

\* The alert an acknowledge request names.
IdOf(sid) == CHOOSE id \in AlertIds : Str(id) = sid

\* App: alertScope === "selected" ? selectedId : null
AlertsKey(scope, sel) == IF scope = "selected" THEN sel ELSE NULL

\* The alerts GET /api/alerts selects: those of animal_id = key, or all of
\* them when the request carries no animal_id.
Wanted(key, id) == key = NULL \/ AlertOwner(id) = key

\* Rows of GET /api/alerts for key when the open alerts are `open`.
SrvRows(key, open) ==
    LET W(id) == Wanted(key, id)
        ids == SelectSeq(<<1, 2>>, W)
    IN [i \in 1..Len(ids) |->
           [alert_id |-> ids[i], animal_id |-> AlertOwner(ids[i]),
            estado |-> IF ids[i] \in open THEN "open" ELSE "ack"]]

\* load(): rows.map((r) => ({id: String(r.alert_id), ..., unread: r.estado === "open"}))
Mapped(rows) ==
    [i \in 1..Len(rows) |->
        [id |-> Str(rows[i].alert_id), animal_id |-> rows[i].animal_id,
         unread |-> rows[i].estado = "open"]]

\* A load() that has issued its getJSON: called by the effect or its
\* interval (NewLoad), or as reloadAlerts() by an acknowledge handler (Reload).
NewLoad(key) == [key |-> key, served |-> FALSE, open |-> {}, ack |-> FALSE]
Reload(key) == [NewLoad(key) EXCEPT !.ack = TRUE]

NoLast == [what |-> "none", ok |-> FALSE]

\* Requests of the alerts code awaiting their response.
AlInFlight == Cardinality(alLoads) + Cardinality(acks)

UnreadIds(ns) == {ns[i].id : i \in {j \in 1..Len(ns) : ns[j].unread}}

\* App mounts with selectedId = null and scope "selected": the effect of
\* useAlerts(null) calls load() (all animals) and starts its interval.
\* Every alert of the backend is open; acknowledging is what closes them.
AlertsInit ==
    /\ selectedId = NULL
    /\ alertScope = "selected"
    /\ notifications = <<>>
    /\ alTimers = {NULL}
    /\ alLoads = {NewLoad(NULL)}
    /\ acks = {}
    /\ alLast = NoLast
    /\ srvOpen = AlertIds

\* The useAlerts effect for a render whose key went from old to new:
\* nothing when the key is the same; else clearInterval of the old run,
\* load() and setInterval(load, 10000) of the new one.
AlertsEffect(old, new) ==
    IF old = new
    THEN UNCHANGED <<alTimers, alLoads>>
    ELSE /\ AlInFlight < MaxInFlight
         /\ alTimers' = (alTimers \ {old}) \cup {new}
         /\ alLoads' = alLoads \cup {NewLoad(new)}

\* setSelectedId(b): a click on a row, an arrow key, or the auto-selection
\* of the first animal once the roster has loaded.
SelectAnimal(b) ==
    /\ b # selectedId
    /\ selectedId' = b
    /\ AlertsEffect(AlertsKey(alertScope, selectedId), AlertsKey(alertScope, b))
    /\ UNCHANGED <<alertScope, notifications, acks, srvOpen>>
    /\ alLast' = NoLast

\* toggleScope: setAlertScope((s) => (s === "selected" ? "all" : "selected"))
ToggleScope ==
    /\ alertScope' = IF alertScope = "selected" THEN "all" ELSE "selected"
    /\ AlertsEffect(AlertsKey(alertScope, selectedId),
                    AlertsKey(alertScope', selectedId))
    /\ UNCHANGED <<selectedId, notifications, acks, srvOpen>>
    /\ alLast' = NoLast

\* The interval of the effect run for key k fires: load().
AlertsTick(k) ==
    /\ k \in alTimers
    /\ AlInFlight < MaxInFlight
    /\ alLoads' = alLoads \cup {NewLoad(k)}
    /\ UNCHANGED <<selectedId, alertScope, notifications, alTimers, acks, srvOpen>>
    /\ alLast' = NoLast

\* The backend reads the alerts request l selects.
AlertsServe(l) ==
    /\ l \in alLoads /\ ~l.served
    /\ alLoads' = (alLoads \ {l}) \cup
           {[l EXCEPT !.served = TRUE,
                      !.open = {id \in srvOpen : Wanted(l.key, id)}]}
    /\ UNCHANGED <<selectedId, alertScope, notifications, alTimers, acks, srvOpen>>
    /\ alLast' = NoLast

\* A load() that merges the response into the list it finds: an item that
\* is read locally stays read whatever the response says.
AlertsSettled_Merge(l, ok) ==
    /\ l \in alLoads
    /\ ok => l.served
    /\ alLoads' = alLoads \ {l}
    /\ notifications' =
           IF ok
           THEN LET mapped == Mapped(SrvRows(l.key, l.open))
                    ReadHere(id) == \E j \in 1..Len(notifications) :
                                        /\ notifications[j].id = id
                                        /\ ~notifications[j].unread
                IN [i \in 1..Len(mapped) |->
                       [mapped[i] EXCEPT !.unread = @ /\ ~ReadHere(mapped[i].id)]]
           ELSE notifications
    /\ alLast' = [what |-> IF l.ack THEN "reload" ELSE "poll", ok |-> ok]
    /\ UNCHANGED <<selectedId, alertScope, alTimers, acks, srvOpen>>

\* `await getJSON("/api/alerts", params)` of load() l settles: on success
\* setNotifications(mapped); a rejection leaves load() before it sets state.
AlertsSettled(l, ok) ==
    /\ l \in alLoads
    /\ ok => l.served
    /\ alLoads' = alLoads \ {l}
    /\ notifications' = IF ok THEN Mapped(SrvRows(l.key, l.open))
                        ELSE notifications
    /\ alLast' = [what |-> IF l.ack THEN "reload" ELSE "poll", ok |-> ok]
    /\ UNCHANGED <<selectedId, alertScope, alTimers, acks, srvOpen>>

NewAck(kind, ids) ==
    [kind |-> kind, ids |-> ids, key |-> AlertsKey(alertScope, selectedId)]

\* ackAlert that waits for the server before touching local state.
AckAlert_NoOptimistic(sid) ==
    /\ sid \in UnreadIds(notifications)
    /\ AlInFlight < MaxInFlight
    /\ notifications' = notifications
    /\ acks' = acks \cup {NewAck("single", {sid})}
    /\ UNCHANGED <<selectedId, alertScope, alTimers, alLoads, srvOpen>>
    /\ alLast' = NoLast

\* ackAlert(id) up to `await postJSON(...)`: called from the "Reconocer"
\* button the tray renders for an unread item; the optimistic update, then
\* POST /api/alerts/ack/{sid}.
AckAlert(sid) ==
    /\ sid \in UnreadIds(notifications)
    /\ AlInFlight < MaxInFlight
    /\ notifications' =
           [i \in 1..Len(notifications) |->
               IF notifications[i].id = sid
               THEN [notifications[i] EXCEPT !.unread = FALSE]
               ELSE notifications[i]]
    /\ acks' = acks \cup {NewAck("single", {sid})}
    /\ UNCHANGED <<selectedId, alertScope, alTimers, alLoads, srvOpen>>
    /\ alLast' = NoLast

\* markAllRead up to `await postJSON(...)`: returns when nothing is unread;
\* else the optimistic update, then POST /api/alerts/ack/bulk {ids}.
MarkAllRead ==
    /\ UnreadIds(notifications) # {}
    /\ AlInFlight < MaxInFlight
    /\ notifications' =
           [i \in 1..Len(notifications) |->
               [notifications[i] EXCEPT !.unread = FALSE]]
    /\ acks' = acks \cup {NewAck("bulk", UnreadIds(notifications))}
    /\ UNCHANGED <<selectedId, alertScope, alTimers, alLoads, srvOpen>>
    /\ alLast' = NoLast

\* The backend's side of an acknowledge request that reached it.
SrvAck(a, processed) ==
    IF processed THEN srvOpen \ {IdOf(sid) : sid \in a.ids} ELSE srvOpen

\* An ackAlert whose catch block undoes the optimistic update.
AckAlertSettled_Rollback(a, ok, processed) ==
    /\ a \in acks /\ a.kind = "single"
    /\ ok => processed
    /\ acks' = acks \ {a}
    /\ srvOpen' = SrvAck(a, processed)
    /\ alLoads' = IF ok THEN alLoads \cup {Reload(a.key)} ELSE alLoads
    /\ notifications' =
           IF ok THEN notifications
           ELSE [i \in 1..Len(notifications) |->
                    IF notifications[i].id \in a.ids
                    THEN [notifications[i] EXCEPT !.unread = TRUE]
                    ELSE notifications[i]]
    /\ UNCHANGED <<selectedId, alertScope, alTimers>>
    /\ alLast' = NoLast

\* ackAlert: `await postJSON(...)` settles: on success
\* `await reloadAlerts()` (the load of the render that was clicked); a
\* rejection goes to `catch (e) { console.error(e) }`.
AckAlertSettled(a, ok, processed) ==
    /\ a \in acks /\ a.kind = "single"
    /\ ok => processed
    /\ acks' = acks \ {a}
    /\ srvOpen' = SrvAck(a, processed)
    /\ alLoads' = IF ok THEN alLoads \cup {Reload(a.key)} ELSE alLoads
    /\ UNCHANGED <<selectedId, alertScope, notifications, alTimers>>
    /\ alLast' = NoLast

\* markAllRead: `await postJSON(...)` settles; try/catch logs either way and
\* `finally { await reloadAlerts(); }` runs in both cases.
MarkAllReadSettled(a, ok, processed) ==
    /\ a \in acks /\ a.kind = "bulk"
    /\ ok => processed
    /\ acks' = acks \ {a}
    /\ srvOpen' = SrvAck(a, processed)
    /\ alLoads' = alLoads \cup {Reload(a.key)}
    /\ UNCHANGED <<selectedId, alertScope, notifications, alTimers>>
    /\ alLast' = NoLast

notAl == <<httpVars, authVars, tlVars, dhVars, trVars, ddVars, selVars, plVars>>

AlertsNext ==
    \/ \E b \in AnimalIds : SelectAnimal(b) /\ UNCHANGED notAl
    \/ ToggleScope /\ UNCHANGED notAl
    \/ \E k \in alTimers : AlertsTick(k) /\ UNCHANGED notAl
    \/ \E l \in alLoads : AlertsServe(l) /\ UNCHANGED notAl
    \/ \E l \in alLoads, ok \in BOOLEAN : AlertsSettled(l, ok) /\ UNCHANGED notAl
    \/ \E sid \in UnreadIds(notifications) : AckAlert(sid) /\ UNCHANGED notAl
    \/ MarkAllRead /\ UNCHANGED notAl
    \/ \E a \in acks, ok \in BOOLEAN, processed \in BOOLEAN :
           AckAlertSettled(a, ok, processed) /\ UNCHANGED notAl
    \/ \E a \in acks, ok \in BOOLEAN, processed \in BOOLEAN :
           MarkAllReadSettled(a, ok, processed) /\ UNCHANGED notAl

----------------------------------------------------------------------------
(* SpecTray: NotificationTray of App.jsx with App's trayOpen.  The tray is *)
(* given the notifications of useAlerts and its buttons call ackAlert,     *)
(* markAllRead and toggleScope; it is followed here with the list of all   *)
(* animals, which is the one useAlerts holds while no animal is selected.  *)
(* The listeners of the tray's effect are registered exactly while `open`  *)
(* is true.                                                                *)

\* A tray that lists every notification, read or not.
TrayItems_All(ns) == ns

\* NotificationTray: const items = notifications.filter((n) => n.unread)
TrayItems(ns) ==
    LET Unread(n) == n.unread IN SelectSeq(ns, Unread)

\* What NotificationTray renders: null when closed, else the items.
NotificationTray(open, ns) ==
    [shown |-> open, items |-> IF open THEN TrayItems(ns) ELSE <<>>]

\* A mousedown lands on the tray, on the bell button, or anywhere else.
Targets == {"tray", "bell", "outside"}
Keys == {"Escape", "Enter"}

DomEvent(ev, on) == [ev |-> ev, on |-> on, was |-> trayOpen]
NoEvent == [ev |-> "none", on |-> "none", was |-> FALSE]

TrayInit ==
    /\ trayOpen = FALSE
    /\ trayEv = NoEvent

\* The bell's onClick: setTrayOpen((v) => !v).
BellClick ==
    /\ trayOpen' = ~trayOpen
    /\ trayEv' = DomEvent("click", "bell")

\* The "Cerrar" button of the tray: onClose().
CloseClick ==
    /\ trayOpen
    /\ trayOpen' = FALSE
    /\ trayEv' = DomEvent("click", "close")

\* onDoc without the anchorRef test.
MouseDown_NoAnchor(t) ==
    /\ t = "tray" => trayOpen
    /\ trayOpen' = (trayOpen /\ t = "tray")
    /\ trayEv' = DomEvent("mousedown", t)

\* A mousedown on the document.  The tray's elements exist only while it is
\* rendered.  Closed: no listener.  Open: onDoc returns when the tray or the
\* bell contains the target, else onClose().
MouseDown(t) ==
    /\ t = "tray" => trayOpen
    /\ trayOpen' = (trayOpen /\ t \in {"tray", "bell"})
    /\ trayEv' = DomEvent("mousedown", t)

\* A keydown on the document.  Closed: no listener.  Open: onKey calls
\* onClose() when e.key === "Escape".
KeyDown(k) ==
    /\ trayOpen' = (trayOpen /\ k # "Escape")
    /\ trayEv' = DomEvent("keydown", k)

notTr == <<httpVars, authVars, tlVars, dhVars, ddVars, selVars, plVars>>

\* A step of the alerts code seen from the tray: trayOpen stays.
Quiet == trayOpen' = trayOpen /\ trayEv' = NoEvent /\ UNCHANGED notTr

TrayNext ==
    \/ BellClick /\ UNCHANGED <<notTr, alVars>>
    \/ CloseClick /\ UNCHANGED <<notTr, alVars>>
    \/ \E t \in Targets : MouseDown(t) /\ UNCHANGED <<notTr, alVars>>
    \/ \E k \in Keys : KeyDown(k) /\ UNCHANGED <<notTr, alVars>>
    \/ trayOpen /\ \E i \in 1..Len(NotificationTray(trayOpen, notifications).items) :
           AckAlert(NotificationTray(trayOpen, notifications).items[i].id) /\ Quiet
    \/ trayOpen /\ MarkAllRead /\ Quiet
    \/ trayOpen /\ ToggleScope /\ Quiet
    \/ \E k \in alTimers : AlertsTick(k) /\ Quiet
    \/ \E l \in alLoads : AlertsServe(l) /\ Quiet
    \/ \E l \in alLoads, ok \in BOOLEAN : AlertsSettled(l, ok) /\ Quiet
    \/ \E a \in acks, ok \in BOOLEAN, processed \in BOOLEAN :
           AckAlertSettled(a, ok, processed) /\ Quiet
    \/ \E a \in acks, ok \in BOOLEAN, processed \in BOOLEAN :
           MarkAllReadSettled(a, ok, processed) /\ Quiet

----------------------------------------------------------------------------
(* SpecChart: the bar chart of App.jsx: chartOffset, goOlderDay and        *)
(* goNewerDay, useBehaviorDayDistribution(selectedId, chartDateISO) and    *)
(* chartPercents.  A date is the number of days it lies before today.  The *)
(* backend is not part of these sources: the body it answers with is taken *)
(* from the description of the aggregation over the day's hourly samples.  *)

\* BEHAVIORS in the order of the array
BehaviorList ==
    <<"Foraging", "Resting", "Locomotion", "Social", "Play", "Stereotypy">>

maxOffset == 6
totalOffsets == maxOffset + 1

\* Hourly samples the backend holds for animal a on the day o days ago.
SrvSamples(a, o) ==
    IF a = "a1"
    THEN IF o = 0 THEN <<"Resting", "Resting", "Foraging", "Play">>
         ELSE IF o = 1 THEN <<>> ELSE <<"Resting">>
    ELSE IF o = 0 THEN <<"Play", "Social">> ELSE <<>>

\* Per category count / N * 100; no entry for a category without samples,
\* and no entries at all for a day without samples.
PercentagesFromTimeline(tl) ==
    [b \in {tl[i] : i \in 1..Len(tl)} |->
        (Cardinality({i \in 1..Len(tl) : tl[i] = b}) * 100) \div Len(tl)]

\* useState(null) of the hook
NoDist ==
    [isNull |-> TRUE, animal_id |-> NULL, day |-> 0,
     hasVs |-> FALSE, vs |-> EmptyMap, pct |-> EmptyMap]

\* Decoded bodies of GET /api/behavior/day_distribution for (a, o): with
\* behavior_percentages, and with or without behavior_percentages_vs_baseline.
DayBodies(a, o) ==
    LET pct == PercentagesFromTimeline(SrvSamples(a, o))
    IN {[isNull |-> FALSE, animal_id |-> a, day |-> o,
         hasVs |-> v, vs |-> IF v THEN pct ELSE EmptyMap, pct |-> pct] :
            v \in BOOLEAN}

\* chartPercents:
\*   src = d?.behavior_percentages_vs_baseline ?? d?.behavior_percentages
\*   !src -> six bars of 0; else one bar per behavior with src[b] || 0
ChartPercents(d) ==
    LET src == IF d.hasVs THEN d.vs ELSE d.pct
    IN [i \in 1..Len(BehaviorList) |->
           [behavior |-> BehaviorList[i],
            pct |-> IF d.isNull THEN 0 ELSE Get(src, BehaviorList[i])]]

\* A load() of the effect run for (a, o) that has issued its getJSON.
DdLoad(a, o) == [animalId |-> a, day |-> o, stop |-> FALSE]

\* The cleanup of an effect run: stop = true for the loads it has issued
\* (the loads of earlier runs are stopped already).
Stopped(loads) == {[l EXCEPT !.stop = TRUE] : l \in loads}

\* App mounts with selectedId = null and chartOffset = 0: the effect calls
\* setDist(null) and returns.
ChartInit ==
    /\ ddAnimalId = NULL
    /\ chartOffset = 0
    /\ dist = NoDist
    /\ ddTimer = FALSE
    /\ ddPending = {}

\* selectedId becomes b.  The hook's effect runs for (b, the date shown):
\* cleanup of the previous run, load(), and an interval when the date is
\* today.  Then App's effect on selectedId calls setChartOffset(0); when the
\* offset was not 0 the hook's effect runs again for (b, today).
ChartSelect(b) ==
    /\ b \in AnimalIds /\ b # ddAnimalId
    /\ ddAnimalId' = b
    /\ chartOffset' = 0
    /\ LET old == IF ddAnimalId = NULL THEN ddPending ELSE Stopped(ddPending)
           first == old \cup {DdLoad(b, chartOffset)}
           second == IF chartOffset = 0 THEN first
                     ELSE Stopped(first) \cup {DdLoad(b, 0)}
       IN /\ Cardinality(second) <= MaxDdLoads
          /\ ddPending' = second
    /\ ddTimer' = TRUE
    /\ dist' = dist

\* setChartOffset gives o: the hook's effect runs for (animalId, o).  No
\* animal: setDist(null) and return.  Else cleanup of the previous run,
\* load(), and an interval when o is today.
ShowDay(o) ==
    /\ chartOffset' = o
    /\ ddAnimalId' = ddAnimalId
    /\ IF ddAnimalId = NULL
       THEN dist' = NoDist /\ ddTimer' = FALSE /\ ddPending' = ddPending
       ELSE /\ Cardinality(Stopped(ddPending) \cup {DdLoad(ddAnimalId, o)})
                   <= MaxDdLoads
            /\ ddPending' = Stopped(ddPending) \cup {DdLoad(ddAnimalId, o)}
            /\ ddTimer' = (o = 0)
            /\ dist' = dist

\* The remainder operator of JavaScript: the result has the sign of x.
Rem(x, n) == IF x >= 0 THEN x % n ELSE 0 - ((0 - x) % n)

\* (o) => (o + 1) % totalOffsets
Older(o) == Rem(o + 1, totalOffsets)

\* An updater that steps back without adding totalOffsets first.
Newer_NoWrap(o) == Rem(o - 1, totalOffsets)

\* (o) => (o - 1 + totalOffsets) % totalOffsets
Newer(o) == Rem(o - 1 + totalOffsets, totalOffsets)

\* goOlderDay: setChartOffset(Older)
goOlderDay == ShowDay(Older(chartOffset))

\* goNewerDay: setChartOffset(Newer)
goNewerDay == ShowDay(Newer(chartOffset))

\* The interval of the current effect run fires: load().
ChartTick ==
    /\ ddTimer
    /\ Cardinality(ddPending \cup {DdLoad(ddAnimalId, chartOffset)}) <= MaxDdLoads
    /\ ddPending' = ddPending \cup {DdLoad(ddAnimalId, chartOffset)}
    /\ UNCHANGED <<ddAnimalId, chartOffset, dist, ddTimer>>

\* `await getJSON(...)` of load() l settles:
\*   try { ...; if (!stop) setDist(data); } catch { if (!stop) setDist(null); }
ChartSettled(l, ok, body) ==
    /\ l \in ddPending
    /\ ddPending' = ddPending \ {l}
    /\ dist' = IF l.stop THEN dist ELSE IF ok THEN body ELSE NoDist
    /\ UNCHANGED <<ddAnimalId, chartOffset, ddTimer>>

notDd == <<httpVars, authVars, tlVars, dhVars, alVars, trVars, selVars, plVars>>

ChartNext ==
    \/ \E b \in AnimalIds : ChartSelect(b) /\ UNCHANGED notDd
    \/ goOlderDay /\ UNCHANGED notDd
    \/ goNewerDay /\ UNCHANGED notDd
    \/ ChartTick /\ UNCHANGED notDd
    \/ \E l \in ddPending, ok \in BOOLEAN : \E body \in DayBodies(l.animalId, l.day) :
           ChartSettled(l, ok, body) /\ UNCHANGED notDd

----------------------------------------------------------------------------
(* SpecSelection: useAnimals and App's selectedId: the auto-selection of   *)
(* the first animal, the clicks on the list and handleKeyDown.  The roster *)
(* is fetched once, on mount.  useBehaviorTimeline stands for the hooks    *)
(* that are called with selectedId; the others are followed in their own   *)
(* specifications.                                                         *)

\* Decoded bodies of GET /api/animals: the animal_id of each entry.
Rosters == {<<>>, <<"a1">>, <<"a1", "a2">>, <<"a2", "a1">>}

NavKeys == {"ArrowDown", "ArrowUp", "Enter"}

Max(x, y) == IF x >= y THEN x ELSE y
Min(x, y) == IF x <= y THEN x ELSE y

\* roster.findIndex((i) => i.animal_id === sel): from 0, -1 when absent
FindIndex(roster, sel) ==
    LET hits == {i \in 1..Len(roster) : roster[i] = sel}
    IN IF hits = {} THEN -1
       ELSE (CHOOSE i \in hits : \A j \in hits : i <= j) - 1

\* roster[i]?.animal_id, i from 0
IdAt(roster, i) ==
    IF i >= 0 /\ i < Len(roster) THEN roster[i + 1] ELSE UNDEFINED

\* The effect on [animals, selectedId]:
\*   if (!selectedId && animals[0]) setSelectedId(animals[0].animal_id)
AutoSelect(roster, sel) ==
    IF sel \in Unset /\ roster # <<>> THEN roster[1] ELSE sel

SelEvent(ev) == [ev |-> ev, from |-> selectedId]
NoSelEvent == [ev |-> "none", from |-> NULL]

\* App mounts: useAnimals has issued its getJSON, nothing is selected.
SelInit ==
    /\ animals = <<>>
    /\ rosterPc = "pending"
    /\ selEv = NoSelEvent

\* setSelectedId(x) with the renders and effects that follow it: the
\* auto-selection, then the effect of the hook called with selectedId.
SetSelected(roster, x) ==
    /\ selectedId' = AutoSelect(roster, x)
    /\ IF selectedId' = tlAnimalId
       THEN UNCHANGED tlVars
       ELSE TimelineRerun(selectedId')

\* getJSON("/api/animals").then(setAnimals).catch(console.error) settles.
RosterLoaded(ok, body) ==
    /\ rosterPc = "pending"
    /\ selEv' = SelEvent("roster")
    /\ IF ok
       THEN /\ animals' = body
            /\ rosterPc' = "ok"
            /\ SetSelected(body, selectedId)
       ELSE /\ animals' = animals
            /\ rosterPc' = "failed"
            /\ UNCHANGED <<selectedId, tlVars>>

\* onClick of the i-th row of the list: setSelectedId(a.animal_id)
ClickAnimal(i) ==
    /\ i \in 1..Len(animals)
    /\ selEv' = SelEvent("click")
    /\ SetSelected(animals, animals[i])
    /\ UNCHANGED <<animals, rosterPc>>

\* handleKeyDown without Math.min / Math.max around the new index.
handleKeyDown_NoClamp(k) ==
    /\ selEv' = SelEvent(k)
    /\ LET idx == Max(0, FindIndex(animals, selectedId))
       IN IF k = "ArrowDown"
          THEN SetSelected(animals, IdAt(animals, idx + 1))
          ELSE IF k = "ArrowUp"
          THEN SetSelected(animals, IdAt(animals, idx - 1))
          ELSE UNCHANGED <<selectedId, tlVars>>
    /\ UNCHANGED <<animals, rosterPc>>

\* handleKeyDown(e) of the list, for e.key = k.
handleKeyDown(k) ==
    /\ selEv' = SelEvent(k)
    /\ LET idx == Max(0, FindIndex(animals, selectedId))
           next == Min(idx + 1, Len(animals) - 1)
           prev == Max(idx - 1, 0)
       IN IF k = "ArrowDown"
          THEN SetSelected(animals, IdAt(animals, next))
          ELSE IF k = "ArrowUp"
          THEN SetSelected(animals, IdAt(animals, prev))
          ELSE UNCHANGED <<selectedId, tlVars>>
    /\ UNCHANGED <<animals, rosterPc>>

\* The timeline request of effect run e settles.
SelTimelineResponse(e, ok, body) ==
    /\ TimelineResponse(e, ok, body)
    /\ selEv' = NoSelEvent
    /\ UNCHANGED <<animals, rosterPc, selectedId>>

notSel == <<httpVars, authVars, dhVars, trVars, ddVars, plVars, alertScope,
            notifications, alTimers, alLoads, acks, alLast, srvOpen>>

SelectionNext ==
    \/ \E ok \in BOOLEAN, body \in Rosters : RosterLoaded(ok, body) /\ UNCHANGED notSel
    \/ \E i \in 1..Len(animals) : ClickAnimal(i) /\ UNCHANGED notSel
    \/ \E k \in NavKeys : handleKeyDown(k) /\ UNCHANGED notSel
    \/ \E e \in tlPending, ok \in BOOLEAN :
           \E body \in TimelineBodies(tlEffects[e].animalId) :
               SelTimelineResponse(e, ok, body) /\ UNCHANGED notSel

----------------------------------------------------------------------------
(* SpecPolling: the setInterval timers of the four polling hooks while App *)
(* is mounted, re-rendered with another selection, scope or chart day, and *)
(* unmounted (ProtectedApp stops rendering it after logout).  A timer is   *)
(* known by the hook and the scope of the effect run that created it: the  *)
(* callback it fires is the load of that run's closure.                    *)

Hooks == {"alerts", "current", "day", "history"}

\* The state of App the hooks are called with.
AppState(sel, scope, off) == [sel |-> sel, scope |-> scope, off |-> off]

\* The dependencies of the effect of hook h in a render with state st:
\*   useAlerts(alertScope === "selected" ? selectedId : null)
\*   useBehaviorDayDistribution(selectedId, chartDateISO)
\*   useCurrentBehavior(selectedId), useDeviationHistory(selectedId, ...)
ScopeOf(h, st) ==
    IF h = "alerts" THEN [animal |-> AlertsKey(st.scope, st.sel), day |-> 0]
    ELSE IF h = "day" THEN [animal |-> st.sel, day |-> st.off]
    ELSE [animal |-> st.sel, day |-> 0]

\* Whether an effect run of h with scope sc reaches its setInterval:
\* useAlerts always; the others return first when there is no animal, and
\* the day distribution polls only when the date is today.
StartsTimer(h, sc) ==
    IF h = "alerts" THEN TRUE
    ELSE IF h = "day" THEN sc.animal \notin Unset /\ sc.day = 0
    ELSE sc.animal \notin Unset

Timer(h, sc) == [hook |-> h, scope |-> sc]
NoPoll == [hook |-> "none", scope |-> [animal |-> NULL, day |-> 0]]

\* A cleanup of useCurrentBehavior that sets `stop` and leaves the interval.
Cleared_StopOnly(h, sc) == IF h = "current" THEN {} ELSE {Timer(h, sc)}

\* The cleanup of the effect run of h for scope sc: clearInterval(t).
Cleared(h, sc) == {Timer(h, sc)}

\* The timers after the effects of a render with state new that follows a
\* render with state old: per hook, nothing when its dependencies are the
\* same, else the cleanup of the old run and the new run.
AfterRender(T, old, new) ==
    UNION {LET mine == {t \in T : t.hook = h}
               os == ScopeOf(h, old)
               ns == ScopeOf(h, new)
           IN IF os = ns THEN mine
              ELSE (mine \ Cleared(h, os)) \cup
                       (IF StartsTimer(h, ns) THEN {Timer(h, ns)} ELSE {}) :
           h \in Hooks}

\* The timers of the first render of App: every effect runs.
AfterMount(T, st) ==
    T \cup {Timer(h, ScopeOf(h, st)) : h \in {g \in Hooks : StartsTimer(g, ScopeOf(g, st))}}

Current == AppState(selectedId, alertScope, chartOffset)

\* App mounts with selectedId = null, scope "selected", chartOffset = 0.
PollInit ==
    /\ mounted = TRUE
    /\ timers = AfterMount({}, AppState(NULL, "selected", 0))
    /\ pollLast = NoPoll

\* setSelectedId(b), then setChartOffset(0) by the effect on selectedId: a
\* render with the new animal and the day shown, then one with today.
PollSelect(b) ==
    /\ mounted /\ b # selectedId
    /\ selectedId' = b
    /\ chartOffset' = 0
    /\ LET mid == AppState(b, alertScope, chartOffset)
       IN timers' = AfterRender(AfterRender(timers, Current, mid), mid,
                                AppState(b, alertScope, 0))
    /\ pollLast' = NoPoll
    /\ UNCHANGED <<mounted, alertScope>>

\* toggleScope
PollToggleScope ==
    /\ mounted
    /\ alertScope' = IF alertScope = "selected" THEN "all" ELSE "selected"
    /\ timers' = AfterRender(timers, Current,
                             AppState(selectedId, alertScope', chartOffset))
    /\ pollLast' = NoPoll
    /\ UNCHANGED <<mounted, selectedId, chartOffset>>

\* goOlderDay / goNewerDay give offset o.
PollShowDay(o) ==
    /\ mounted
    /\ chartOffset' = o
    /\ timers' = AfterRender(timers, Current, AppState(selectedId, alertScope, o))
    /\ pollLast' = NoPoll
    /\ UNCHANGED <<mounted, selectedId, alertScope>>

\* The interval t fires: the load of its effect run issues its request(s).
PollTick(t) ==
    /\ t \in timers
    /\ pollLast' = t
    /\ UNCHANGED <<mounted, timers, selectedId, alertScope, chartOffset>>

\* App unmounts: the cleanup of the last run of every effect.
Unmount ==
    /\ mounted
    /\ mounted' = FALSE
    /\ timers' = timers \ UNION {Cleared(h, ScopeOf(h, Current)) : h \in Hooks}
    /\ pollLast' = NoPoll
    /\ UNCHANGED <<selectedId, alertScope, chartOffset>>

\* App mounts again (a new login): fresh state, every effect runs.
Mount ==
    /\ ~mounted
    /\ mounted' = TRUE
    /\ selectedId' = NULL /\ alertScope' = "selected" /\ chartOffset' = 0
    /\ timers' = AfterMount(timers, AppState(NULL, "selected", 0))
    /\ pollLast' = NoPoll

notPl == <<httpVars, authVars, tlVars, dhVars, trVars, selVars, notifications,
           alTimers, alLoads, acks, alLast, srvOpen, ddAnimalId, dist, ddTimer,
           ddPending>>

PollNext ==
    \/ \E b \in AnimalIds : PollSelect(b) /\ UNCHANGED notPl
    \/ PollToggleScope /\ UNCHANGED notPl
    \/ \E o \in {Older(chartOffset), Newer(chartOffset)} :
           PollShowDay(o) /\ UNCHANGED notPl
    \/ \E t \in timers : PollTick(t) /\ UNCHANGED notPl
    \/ Unmount /\ UNCHANGED notPl
    \/ Mount /\ UNCHANGED notPl

----------------------------------------------------------------------------
(* Specifications *)

vars == <<httpVars, authVars, tlVars, dhVars, alVars, trVars, ddVars, selVars, plVars>>

Init ==
    /\ HttpInit /\ AuthInit /\ TimelineInit /\ HistoryInit /\ AlertsInit
    /\ TrayInit /\ ChartInit /\ SelInit /\ PollInit

SpecHttp == Init /\ [][HttpNext]_vars

SpecAuth == Init /\ [][AuthNext]_vars

SpecTimeline == Init /\ [][TimelineNext]_vars

\* Every request is answered or fails in the end (the browser's own
\* timeout); the user is under no obligation to select another animal.
TimelineSettles ==
    \E e \in tlPending, ok \in BOOLEAN :
        \E body \in TimelineBodies(tlEffects[e].animalId) :
            TimelineResponse(e, ok, body) /\ UNCHANGED <<httpVars, authVars, dhVars, alVars, trVars, ddVars, selVars, plVars>>

SpecTimelineFair == SpecTimeline /\ WF_vars(TimelineSettles)

SpecHistory == Init /\ [][HistoryNext]_vars

SpecAlerts == Init /\ [][AlertsNext]_vars

SpecTray == Init /\ [][TrayNext]_vars

SpecChart == Init /\ [][ChartNext]_vars

SpecSelection == Init /\ [][SelectionNext]_vars

SpecPolling == Init /\ [][PollNext]_vars

----------------------------------------------------------------------------
(* Claims about the HTTP helpers (SpecHttp) *)

Is401(r) == ~r.rejected /\ r.status = 401

\* Number of times the call has issued its original request / a refresh.
Attempts == Cardinality({i \in 1..Len(call.log) :
                            call.log[i] = Req(call.method, call.path)})
Refreshes == Cardinality({i \in 1..Len(call.log) : call.log[i] = RefreshReq})

\* What a first 401 leads to: one refresh, one retry, and a throw without
\* any further request when the retry answers 401 too.
RefreshAndRetryOnce ==
    /\ Refreshes = 1
    /\ call.pc \in {"retry", "done"} => Attempts = 2
    /\ (call.pc = "done" /\ Is401(call.resps[3])) =>
           call.result = "throw" /\ Len(call.log) = 3

\* C1 as stated: every call of getJSON or postJSON (of either file) answers a
\* first 401 with exactly one POST /auth/refresh and exactly one retry, fails
\* when the retry is a 401 too, and never makes more than two attempts.
C1_AnyCallRefreshesOnce ==
    /\ Attempts <= 2
    /\ (Len(call.resps) >= 1 /\ Is401(call.resps[1])) => RefreshAndRetryOnce

\* C1 amended: the above holds for the helpers of App.jsx; the helpers of
\* AuthContext.jsx make one attempt, never refresh, and fail on a 401.
C1_AppCallRefreshesOnce ==
    /\ Attempts <= 2
    /\ (call.wrapper = "App" /\ Len(call.resps) >= 1 /\ Is401(call.resps[1]))
           => RefreshAndRetryOnce
    /\ (call.wrapper = "AuthContext" /\ call.pc # "idle") =>
           /\ Attempts = 1 /\ Refreshes = 0
           /\ (call.pc = "done" /\ Is401(call.resps[1])) => call.result = "throw"

C1_Witness ==
    /\ call.wrapper = "App" /\ call.pc = "done"
    /\ Len(call.resps) = 3
    /\ Is401(call.resps[1]) /\ Is401(call.resps[3])
    /\ call.result = "throw"
    /\ Attempts = 2 /\ Refreshes = 1

\* C21: in the helpers that refresh (App.jsx), a POST /auth/refresh that
\* fails (rejection or non-2xx status) is ignored: the original request is
\* issued again exactly once and the call ends as that retry ends.
C21_RefreshFailureIgnored ==
    (Len(call.resps) >= 2 /\ call.log[2] = RefreshReq
        /\ Settle(call.resps[2]) = "throw") =>
        /\ Refreshes = 1 /\ Attempts = 2
        /\ call.log = <<Req(call.method, call.path), RefreshReq,
                        Req(call.method, call.path)>>
        /\ IF call.pc = "done"
           THEN Len(call.resps) = 3 /\ call.result = Settle(call.resps[3])
           ELSE call.pc = "retry" /\ call.result = "pending"

C21_Witness ==
    /\ call.pc = "done" /\ Len(call.resps) = 3
    /\ call.method = "POST"
    /\ call.resps[2].rejected
    /\ call.resps[3].status = 200
    /\ call.result = "ok"

\* C22: a first response that is non-2xx but not 401, or a rejection of the
\* first fetch, ends the call with a failure: the original request is the
\* only request the call ever issues.
C22_NoRetryOnOtherFailure ==
    (Len(call.resps) >= 1
        /\ (call.resps[1].rejected
              \/ (~ResOk(call.resps[1]) /\ ~Is401(call.resps[1])))) =>
        /\ call.pc = "done" /\ call.result = "throw"
        /\ call.log = <<Req(call.method, call.path)>>
        /\ Len(call.resps) = 1

C22_Witness ==
    /\ call.wrapper = "App" /\ call.pc = "done"
    /\ call.resps = <<[rejected |-> FALSE, status |-> 500]>>
    /\ call.result = "throw" /\ Attempts = 1 /\ Refreshes = 0

----------------------------------------------------------------------------
(* Claims about the auth session store (SpecAuth) *)

Reqs(log) == [i \in 1..Len(log) |-> log[i].req]

\* The user the mount effect's responses call for.
StartExpected ==
    IF startLog[1].res \in Users THEN startLog[1].res
    ELSE IF Len(startLog) = 3 /\ startLog[3].res \in Users THEN startLog[3].res
    ELSE NULL

C2_Inv ==
    /\ checking <=> startPc # "done"
    /\ Reqs(startLog) \in {<<"GET /auth/me">>,
                           <<"GET /auth/me", "POST /auth/refresh">>,
                           <<"GET /auth/me", "POST /auth/refresh", "GET /auth/me">>}
    /\ Len(startLog) >= 2 <=> startLog[1].res = "fail"
    /\ Len(startLog) = 3 <=> (Len(startLog) >= 2 /\ startLog[2].res = "ok")
    /\ startPc \in {"finally", "done"} =>
           \A i \in 1..Len(startLog) : startLog[i].res # "pending"
    /\ startPc = "finally" => user = StartExpected

C2_Step ==
    (startPc = "finally" /\ startPc' = "done") =>
        /\ checking' = FALSE
        /\ user' = StartExpected'

\* C2: the store starts in checking; the mount effect issues GET /auth/me,
\* and only after its failure POST /auth/refresh and a second GET /auth/me;
\* it settles with the fetched user exactly when the first fetch, or the
\* refresh and the second fetch, succeeded, and with no user otherwise; and
\* checking turns false once the requests have resolved, in every case.
C2_StartupSettles == []C2_Inv /\ [][C2_Step]_vars

C2_Witness ==
    /\ startPc = "done" /\ ~checking
    /\ Len(startLog) = 3
    /\ startLog[3].res \in Users
    /\ user = startLog[3].res

C3_Inv ==
    loginLog # <<>> =>
        /\ loginLog[1].req = "POST /auth/login"
        /\ loginLog[1].body \in Creds
        /\ Len(loginLog) <= 2
        /\ Len(loginLog) = 2 <=> loginLog[1].res = "ok"
        /\ Len(loginLog) = 2 => loginLog[2].req = "GET /auth/me"

C3_Step ==
    (loginPc = "me" /\ loginPc' = "idle" /\ Last(loginLog').res \in Users) =>
        /\ View = "login"
        /\ user' = Last(loginLog').res
        /\ View' = "dashboard"

\* C3: login posts the credentials to /auth/login, then fetches /auth/me;
\* when both succeed the user becomes the fetched identity and the root
\* switches from the login page to the dashboard.
C3_LoginAuthenticates == []C3_Inv /\ [][C3_Step]_vars

C3_Witness ==
    /\ loginPc = "idle" /\ Len(loginLog) = 2
    /\ Last(loginLog).res \in Users
    /\ user = Last(loginLog).res
    /\ View = "dashboard"

C4_Step ==
    (loginPc # "idle" /\ loginPc' = "idle" /\ Last(loginLog').res = "fail") =>
        /\ error' = ErrorMsg
        /\ user' = NULL
        /\ loading' = FALSE

\* C4: a failed login (the post or the following fetch fails) is caught by
\* the form and shown as its error message, never escapes as an unhandled
\* rejection, leaves the user absent and returns loading to false.
C4_LoginFailureCaught ==
    /\ [](~escaped /\ (loginPc # "idle" => loading /\ user = NULL))
    /\ [][C4_Step]_vars

C4_Witness ==
    /\ loginPc = "idle" /\ Len(loginLog) = 2
    /\ Last(loginLog).res = "fail"
    /\ error = ErrorMsg /\ user = NULL /\ ~loading /\ ~escaped

\* C5: logout always ends with the user absent, whether POST /auth/logout
\* succeeded or failed, and never throws.
C5_LogoutAlwaysAnonymous ==
    [][logouts' < logouts => (user' = NULL /\ ~escaped')]_vars

C5_Witness ==
    /\ logoutRes = "throw" /\ logouts = 0
    /\ user = NULL /\ View = "login"

\* C6: while checking is true neither the dashboard nor the login page is
\* rendered; the dashboard is rendered only with a user present, the login
\* page only when checking is false and no user is present.
C6_GateRendering ==
    /\ checking => View \notin {"dashboard", "login"}
    /\ View = "dashboard" => user # NULL
    /\ View = "login" => (~checking /\ user = NULL)

C6_Witness ==
    /\ checking /\ user # NULL
    /\ View = "loading"

----------------------------------------------------------------------------
(* Claims about useBehaviorTimeline (SpecTimeline) *)

\* C7: once the selected animal has changed while a timeline fetch was
\* pending, the response or failure of that fetch is never committed: the
\* step in which a fetch of a superseded effect run settles leaves the rows
\* as they are.
C7_StaleTimelineDiscarded ==
    [][\A e \in tlPending \ tlPending' :
           e # Len(tlEffects) => tlRows' = tlRows]_vars

\* B's timeline is displayed and the late answer for A has just been dropped.
C7_Witness ==
    /\ tlLast.eff # 0 /\ tlLast.eff < Len(tlEffects)
    /\ tlEffects[tlLast.eff].animalId # tlAnimalId
    /\ tlLast.ok /\ ~tlLast.committed
    /\ tlAnimalId # NULL /\ tlRows \in SrvTimelines(tlAnimalId)

\* C28: the rows the hook exposes are its empty value or rows that were
\* fetched for the animal it is called with now, also while the fetch for a
\* newly selected animal is pending.
C28_ExposedDataIsCurrent ==
    tlRows = <<>> \/ (tlAnimalId # NULL /\ tlRows \in SrvTimelines(tlAnimalId))

----------------------------------------------------------------------------
(* Claims about useDeviationHistory (SpecHistory) *)

\* C9: when the selected animal changes while a loadAll for the previous
\* animal is awaiting its responses, the series computed from those
\* responses is discarded: the step in which a loadAll of an animal other
\* than the current one resumes leaves the history as it is.
C9_StaleHistoryDiscarded ==
    [][\A a \in AnimalIds :
           (dhPending'[a] < dhPending[a] /\ a # dhAnimalId)
               => dhHistory' = dhHistory]_vars

\* C17: every series the hook commits has exactly 7 entries, one per date
\* of the trailing window, oldest first (entry i is the date 7 - i days
\* before today, counting entries from 1), each with a deviation for every
\* behaviour, whichever of the per-date fetches failed.
C17_SevenEntriesInOrder ==
    dhHistory # <<>> =>
        /\ Len(dhHistory) = 7
        /\ \A i \in 1..Len(dhHistory) :
               /\ dhHistory[i].date = 7 - i
               /\ DOMAIN dhHistory[i].values = BEHAVIORS
        /\ \A i, j \in 1..Len(dhHistory) :
               i < j => dhHistory[i].date > dhHistory[j].date

\* A series has been committed from a window in which two dates, the oldest
\* among them, brought nothing.
C17_Witness ==
    /\ Cardinality(dhLast.bad) = 2 /\ 1 \in dhLast.bad
    /\ Len(dhHistory) = 7
    /\ dhHistory[1].date = 6 /\ dhHistory[7].date = 0

\* C18: in the committed series, a date whose fetch failed or returned no
\* percentages has a deviation of 0 for every behaviour, whatever the
\* animal's baseline.
C18_MissingDayIsZero ==
    \A i \in dhLast.bad : \A b \in BEHAVIORS : dhHistory[i].values[b] = 0

\* The dates other than today (0 days ago) a loadAll() asks for.
C25_PastDates == {Dates[i] : i \in Days} \ {0}

\* C25: a day-distribution request for a date other than today is issued
\* once per scope and never by polling: a step in which a loadAll() issues
\* its requests for the six past dates is the effect run of a newly
\* selected animal, not a tick of the interval.
C25_PastDatesFetchedOnce ==
    [][\A a \in AnimalIds :
           (dhPending'[a] > dhPending[a] /\ C25_PastDates # {})
               => (dhAnimalId # a /\ dhAnimalId' = a)]_vars

----------------------------------------------------------------------------
(* Claims about useAlerts and the acknowledge handlers (SpecAlerts) *)

\* C8: when the scoping key of the alerts hook has changed while a fetch
\* for the previous key was in flight, the result of that fetch is never
\* committed: the step in which a load() for a key other than the current
\* one settles leaves the notifications as they are.
C8_StaleAlertsDiscarded ==
    [][\A l \in alLoads \ alLoads' :
           l.key # AlertsKey(alertScope, selectedId)
               => notifications' = notifications]_vars

\* C10: acknowledging an alert that is present and unread sets its unread
\* flag to false in local state in the very step that issues the request,
\* so before the request resolves and whatever its delay or outcome; a
\* single acknowledge changes only the item with the given id, a bulk
\* acknowledge leaves every item read; no item is added, dropped or moved.
C10_OptimisticAck ==
    [][\A a \in acks' \ acks :
           /\ a.ids \subseteq UnreadIds(notifications)
           /\ srvOpen' = srvOpen
           /\ Len(notifications') = Len(notifications)
           /\ \A i \in 1..Len(notifications) :
                  /\ notifications'[i].id = notifications[i].id
                  /\ notifications[i].id \in a.ids => ~notifications'[i].unread
                  /\ a.kind = "single" /\ notifications[i].id \notin a.ids
                         => notifications'[i] = notifications[i]
                  /\ a.kind = "bulk" => ~notifications'[i].unread]_vars

\* A single acknowledge is still awaiting its response, the backend still
\* has the alert open, the item is already read locally and the other item
\* of the list is still unread.
C10_Witness ==
    \E a \in acks :
        /\ a.kind = "single"
        /\ \A sid \in a.ids : IdOf(sid) \in srvOpen
        /\ Len(notifications) = 2
        /\ \E i, j \in 1..Len(notifications) :
               /\ notifications[i].id \in a.ids /\ ~notifications[i].unread
               /\ notifications[j].id \notin a.ids /\ notifications[j].unread

\* C11: every acknowledge action, single or bulk, that issued its request is
\* followed by a reload() of the alerts list, when the request succeeds and
\* when it fails: the step in which an acknowledge request settles leaves a
\* load() for the acknowledge's key awaiting the backend.
C11_AckAlwaysReloads ==
    [][\A a \in acks \ acks' : Reload(a.key) \in alLoads']_vars

\* C12: when the reload() an acknowledge handler called resolves
\* successfully, the notifications become exactly the mapped rows of that
\* response: one item per row, in the order of the rows, with the row's id
\* and unread = (estado = "open"); nothing of the previous list, and so
\* nothing of the optimistic update, is kept.
C12_ReloadReplacesWholesale ==
    [][\A l \in alLoads \ alLoads' :
           (l.ack /\ alLast'.ok) =>
               LET rows == SrvRows(l.key, l.open)
               IN /\ Len(notifications') = Len(rows)
                  /\ \A i \in 1..Len(rows) :
                         /\ notifications'[i].id = Str(rows[i].alert_id)
                         /\ notifications'[i].animal_id = rows[i].animal_id
                         /\ notifications'[i].unread = (rows[i].estado = "open")]_vars

\* The reload of an acknowledge has just committed: the acknowledged alert
\* is closed on the backend and read in the list, the other one is still
\* open and unread.
C12_Witness ==
    /\ alLast.what = "reload" /\ alLast.ok
    /\ Len(notifications) = 2
    /\ \E i, j \in 1..Len(notifications) :
           /\ ~notifications[i].unread /\ IdOf(notifications[i].id) \notin srvOpen
           /\ notifications[j].unread /\ IdOf(notifications[j].id) \in srvOpen

C23_Step ==
    /\ acks \ acks' # {} => notifications' = notifications
    /\ notifications' # notifications =>
           \/ alLast'.what # "none" /\ alLast'.ok
           \/ /\ Len(notifications') = Len(notifications)
              /\ \A i \in 1..Len(notifications) :
                     ~notifications[i].unread => ~notifications'[i].unread

\* C23: the step in which an acknowledge request settles, failed or not,
\* leaves the notifications as they are, and an item that is read locally
\* stays read until a load() that succeeded replaces the list.
C23_NoRollback == [][C23_Step]_vars

\* An acknowledge has failed: nothing is in flight, and an item is read
\* locally that the backend still holds open.
C23_Witness ==
    /\ acks = {} /\ alLoads = {}
    /\ \E i \in 1..Len(notifications) :
           ~notifications[i].unread /\ IdOf(notifications[i].id) \in srvOpen

\* C27: once the reload of an acknowledge has committed an alert as read
\* and the backend has recorded the acknowledge, no later commit shows the
\* alert unread: the commit that follows the reload's, in particular that of
\* a poll issued before the acknowledge, leaves the alert read.
C27_AckedStaysRead ==
    [][\A i \in 1..Len(notifications) :
           (/\ alLast.what = "reload" /\ alLast.ok
            /\ ~notifications[i].unread
            /\ IdOf(notifications[i].id) \notin srvOpen)
               => notifications[i].id \notin UnreadIds(notifications')]_vars

\* C16: a failed fetch puts the hook's state into its empty value instead
\* of leaving the data displayed before in place.  For the alerts hook: the
\* step in which the getJSON of a load() fails leaves the notifications
\* empty.
C16_FailedFetchEmpties ==
    [][\A l \in alLoads \ alLoads' :
           ~alLast'.ok => notifications' = <<>>]_vars

\* C20: every alerts fetch is scoped by the hook's key: a load() issued
\* while the scope is "selected" asks for the selected animal, one issued
\* while the scope is "all" asks for all animals; a toggle of the scope
\* moves it to the other of its two values and leaves the selection alone,
\* so that the key is swapped and a second toggle restores it.
C20_FetchScopedByKey ==
    [][/\ \A l \in alLoads' \ alLoads :
              ~l.served =>
                  l.key = (IF alertScope' = "selected" THEN selectedId' ELSE NULL)
       /\ alertScope' # alertScope =>
              /\ alertScope' \in {"selected", "all"} \ {alertScope}
              /\ selectedId' = selectedId]_vars

----------------------------------------------------------------------------
(* Claims about NotificationTray (SpecTray) *)

C14_Step ==
    LET e == trayEv'
    IN /\ (e.ev = "click" /\ e.on = "bell") => trayOpen' = ~trayOpen
       /\ (trayOpen /\ e.ev = "mousedown" /\ e.on = "outside") => ~trayOpen'
       /\ (trayOpen /\ e.ev = "keydown" /\ e.on = "Escape") => ~trayOpen'
       /\ (trayOpen /\ e.ev = "mousedown" /\ e.on \in {"tray", "bell"}) => trayOpen'
       /\ (~trayOpen /\ e.ev \in {"mousedown", "keydown"}) => ~trayOpen'

\* C14: each click on the bell toggles the open flag; while the tray is open
\* a mousedown outside the tray and the bell, or an Escape keydown, closes
\* it, and a mousedown inside the tray or on the bell leaves it open; while
\* it is closed, mousedowns and keydowns leave it closed.
C14_TrayOpensAndCloses == [][C14_Step]_vars

\* The open tray has just been closed by a mousedown outside of it.
C14_Witness ==
    /\ trayEv.ev = "mousedown" /\ trayEv.on = "outside" /\ trayEv.was
    /\ ~trayOpen

----------------------------------------------------------------------------
(* Claims about polling (SpecTimelineFair) *)

\* C15: while the component stays mounted with the same animal, each of the
\* polling hooks re-issues its fetch on a recurring timer, so that a failed
\* fetch is followed by another fetch of the same resource.  For the
\* timeline hook: once the fetch of effect run n has failed, and for as
\* long as run n stays the current one, a fetch of run n is issued again.
C15_FailedFetchReissued ==
    \A n \in 1..MaxTlEffects :
        (Len(tlEffects) = n /\ tlLast.eff = n /\ ~tlLast.ok)
            ~> (Len(tlEffects) # n \/ n \in tlPending)

----------------------------------------------------------------------------
(* Claims about the bar chart (SpecChart) *)

C29_Step ==
    /\ ddAnimalId' # ddAnimalId => chartOffset' = 0
    /\ (ddAnimalId' = ddAnimalId /\ chartOffset' # chartOffset) =>
           chartOffset' \in {(chartOffset + 1) % 7, (chartOffset + 6) % 7}

\* C29: the day offset is an integer in 0..6; the older and newer buttons
\* add and subtract 1 modulo 7 (6 -> 0 and 0 -> 6), older followed by newer
\* gives the offset back, and a change of the selected animal sets it to 0.
C29_OffsetWrapsAndResets ==
    /\ [](chartOffset \in 0..6)
    /\ [](/\ Older(chartOffset) = (chartOffset + 1) % 7
          /\ Newer(chartOffset) = (chartOffset + 6) % 7
          /\ Newer(Older(chartOffset)) = chartOffset
          /\ Older(Newer(chartOffset)) = chartOffset)
    /\ [][C29_Step]_vars

\* The newer button has wrapped from today to the oldest day.
C29_Witness ==
    /\ chartOffset = 6 /\ ddAnimalId = "a2"
    /\ \E l \in ddPending : l.day = 6 /\ ~l.stop
    /\ \E l \in ddPending : l.day = 0 /\ l.stop

\* C19: the percentages shown for a day come from the day's hourly samples:
\* with N > 0 samples every behaviour's bar is count / N * 100 and the bars
\* sum to 100; with no samples the chart gets an empty result, not a set of
\* zero bars.
C19_PercentsFromTimeline ==
    ~dist.isNull =>
        LET tl == SrvSamples(dist.animal_id, dist.day)
            shown == ChartPercents(dist)
            Count(b) == Cardinality({i \in 1..Len(tl) : tl[i] = b})
        IN IF Len(tl) > 0
           THEN /\ Len(shown) = 6
                /\ \A i \in 1..Len(shown) :
                       shown[i].pct * Len(tl) = Count(shown[i].behavior) * 100
                /\ shown[1].pct + shown[2].pct + shown[3].pct
                       + shown[4].pct + shown[5].pct + shown[6].pct = 100
           ELSE shown = <<>>

----------------------------------------------------------------------------
(* Claims about the roster and the selection (SpecSelection) *)

\* A request of the timeline hook for an animal has been issued.
C26_TimelineIssued ==
    \E e \in 1..Len(tlEffects) : tlEffects[e].animalId \in AnimalIds

C26_Step ==
    (tlLast' # tlLast /\ ~tlLast'.ok) =>
        UNCHANGED <<animals, rosterPc, selectedId, authVars, dhVars, ddVars,
                    notifications, alLoads, acks>>

\* C26: a failed fetch of one hook leaves the state of the other hooks and
\* of the auth session as it is and does not keep their fetches from being
\* issued: when the roster request has settled, failed or with animals, the
\* timeline request of an animal has been issued.
C26_FailureStaysLocal ==
    /\ []((rosterPc = "failed" \/ (rosterPc = "ok" /\ animals # <<>>))
             => C26_TimelineIssued)
    /\ [][C26_Step]_vars

C30_InRoster(id) == \E i \in 1..Len(animals) : animals[i] = id

\* C30: the selected id is unset or the id of an animal of the roster; an
\* ArrowDown moves to the next animal and stays on the last, an ArrowUp moves
\* to the previous one and stays on the first, and a roster that arrives
\* with animals while nothing is selected selects its first animal.
C30_SelectionInRoster ==
    /\ selectedId \in Unset \/ C30_InRoster(selectedId)
    /\ animals # <<>> => selectedId \notin Unset
    /\ \A i \in 1..Len(animals) :
           (selEv.ev = "ArrowDown" /\ selEv.from = animals[i]) =>
               selectedId = animals[IF i < Len(animals) THEN i + 1 ELSE i]
    /\ \A i \in 1..Len(animals) :
           (selEv.ev = "ArrowUp" /\ selEv.from = animals[i]) =>
               selectedId = animals[IF i > 1 THEN i - 1 ELSE i]
    /\ (selEv.ev = "roster" /\ selEv.from \in Unset /\ animals # <<>>) =>
           selectedId = animals[1]

\* An ArrowDown on the last animal of a roster of two.
C30_Witness ==
    /\ Len(animals) = 2
    /\ selEv = [ev |-> "ArrowDown", from |-> animals[2]]
    /\ selectedId = animals[2]

----------------------------------------------------------------------------
(* Claims about the intervals (SpecPolling) *)

\* The scope of hook h in the current render.
C24_Scope(h) ==
    [animal |-> IF h = "alerts"
                THEN (IF alertScope = "selected" THEN selectedId ELSE NULL)
                ELSE selectedId,
     day |-> IF h = "day" THEN chartOffset ELSE 0]

\* C24: the interval of a previous scope is cleared when the scope key
\* changes or App unmounts: each hook has at most one active interval, it
\* is that of the current scope of a mounted App, and every load an
\* interval starts is one of the current scope.
C24_OneTimerOfCurrentScope ==
    /\ \A h \in Hooks :
           LET mine == {t \in timers : t.hook = h}
           IN /\ Cardinality(mine) <= 1
              /\ \A t \in mine : mounted /\ t.scope = C24_Scope(h)
    /\ pollLast # NoPoll =>
           mounted /\ pollLast.scope = C24_Scope(pollLast.hook)

\* After changes of the animal, the scope and the day, the interval of the
\* history hook fires.
C24_Witness ==
    /\ mounted /\ selectedId = "a2" /\ alertScope = "all" /\ chartOffset = 3
    /\ pollLast.hook = "history"
    /\ Cardinality(timers) = 3

====
